---- MODULE Spec2Model ----
(***************************************************************************)
(* Model of sqlz's jsonb builder (BuildJSONBObject, BuildJSONBArray,       *)
(* JSONBBuilder.Parse) and of its SELECT statement builder (SelectStmt,    *)
(* JoinClause, LockClause, ToSQL, GetRow, GetAll, GetCount).               *)
(*                                                                         *)
(* SQL text is modelled as the sequence of its whitespace-separated        *)
(* tokens; punctuation the code writes ("(", ")", ",") is a token too.     *)
(***************************************************************************)
EXTENDS Integers, Sequences, FiniteSets, TLC

VARIABLES
    jin,      \* the Go value handed to BuildJSONBObject / BuildJSONBArray
    jb,       \* the JSONBBuilder built from it (or NoBuilder)
    jout,     \* what the last Parse returned (or NoResult)
    jorder,   \* the order in which BuildJSONBObject's range visited the keys
    jseen,    \* every result Parse returned for jin so far, with the orders
    stmts,    \* heap of SelectStmt objects, by address
    locks,    \* heap of LockClause objects, by address
    ret,      \* the last call made and what it returned
    added,    \* per statement, every item ever passed to an additive method
    budget    \* number of configuration calls the behaviour may still make

jvars == <<jin, jb, jout, jorder, jseen>>
svars == <<stmts, locks, ret, added, budget>>
vars == <<jin, jb, jout, jorder, jseen, stmts, locks, ret, added, budget>>

-----------------------------------------------------------------------------
(* Bounds of the model *)

MaxDepth == 2        \* nesting depth of the values handed to the jsonb builders
MaxCalls == 2        \* configuration calls per behaviour of Spec
MaxJoinCalls == 3    \* configuration calls per behaviour of SpecJoins

-----------------------------------------------------------------------------
(* Generic helpers on sequences of tokens *)

RECURSIVE Flatten(_)
Flatten(ss) == IF ss = <<>> THEN <<>> ELSE Head(ss) \o Flatten(Tail(ss))

\* strings.Join(parts, sep) on token sequences: parts is a sequence of token
\* sequences, sep a token sequence
RECURSIVE StringsJoin(_, _)
StringsJoin(parts, sep) ==
    IF parts = <<>> THEN <<>>
    ELSE IF Len(parts) = 1 THEN parts[1]
    ELSE parts[1] \o sep \o StringsJoin(Tail(parts), sep)

\* a Go string as tokens: the empty string contributes no token
Tok(str) == IF str = "" THEN <<>> ELSE <<str>>

Count(seq, x) == Cardinality({i \in 1..Len(seq) : seq[i] = x})

Perms(S) == {p \in [1..Cardinality(S) -> S] :
                \A i, j \in 1..Cardinality(S) : i # j => p[i] # p[j]}

-----------------------------------------------------------------------------
(* jsonb builder: src/jsonb.go lines 8-65 *)

\* The map keys used, listed in Go's (bytewise) string order
Keys == <<"a", "b">>
KeySet == {Keys[i] : i \in 1..Len(Keys)}
Rank(k) == CHOOSE i \in 1..Len(Keys) : Keys[i] = k

\* Scalars used as leaf values (Go strings, distinct from the keys)
Scalars == {"x"}
Scalar(v) == [t |-> "scalar", v |-> v]

\* lengths of the []interface{} values
ArrayLens == {0, 1}

\* Go values: scalar, map[string]interface{}, []interface{}, nested to depth d
RECURSIVE Values(_)
Values(d) ==
    IF d = 0 THEN {Scalar(v) : v \in Scalars}
    ELSE LET sub == Values(d - 1) IN
         {Scalar(v) : v \in Scalars}
         \cup {[t |-> "map", m |-> f] :
                 f \in UNION {[K -> sub] : K \in SUBSET KeySet}}
         \cup {[t |-> "slice", a |-> s] :
                 s \in UNION {[1..n -> sub] : n \in ArrayLens}}

\* Go's string comparison a < b
StrLess(x, y) == Rank(x) < Rank(y)

\* sort.Strings(keys)
RECURSIVE SortInsert(_, _)
SortInsert(sorted, k) ==
    IF sorted = <<>> THEN <<k>>
    ELSE IF StrLess(k, Head(sorted)) THEN <<k>> \o sorted
    ELSE <<Head(sorted)>> \o SortInsert(Tail(sorted), k)

RECURSIVE SortStrings(_)
SortStrings(keys) ==
    IF keys = <<>> THEN <<>>
    ELSE SortInsert(SortStrings(Tail(keys)), Head(keys))

\* `for key := range in`: Go visits the keys of a map in an unspecified
\* order; order is a permutation of all keys, the visit follows it
RangeKeys(in, order) == SelectSeq(order, LAMBDA k : k \in DOMAIN in)

NoBuilder == [none |-> TRUE]
NoResult == [none |-> TRUE]

BuildJSONBObjectValueFirst(in, order) ==
    LET keys == SortStrings(RangeKeys(in, order)) IN
    [Array |-> FALSE,
     Bindings |-> Flatten([i \in 1..Len(keys) |->
                             <<in[keys[i]], Scalar(keys[i])>>])]

BuildJSONBObjectNoSort(in, order) ==
    LET keys == RangeKeys(in, order) IN
    [Array |-> FALSE,
     Bindings |-> Flatten([i \in 1..Len(keys) |->
                             <<Scalar(keys[i]), in[keys[i]]>>])]

BuildJSONBObject(in, order) ==
    LET keys == SortStrings(RangeKeys(in, order)) IN
    [Array |-> FALSE,
     Bindings |-> Flatten([i \in 1..Len(keys) |->
                             <<Scalar(keys[i]), in[keys[i]]>>])]

BuildJSONBArray(in) == [Array |-> TRUE, Bindings |-> in]

RECURSIVE Parse(_, _)
Parse(b, order) ==
    LET head == IF b.Array THEN "jsonb_build_array(" ELSE "jsonb_build_object("
        part(val) ==
            IF val.t = "map" THEN Parse(BuildJSONBObject(val.m, order), order)
            ELSE IF val.t = "slice" THEN Parse(BuildJSONBArray(val.a), order)
            ELSE [asSQL |-> <<"?">>, bindings |-> <<val>>]
        parts == [i \in 1..Len(b.Bindings) |-> part(b.Bindings[i])]
        placeholders == [i \in 1..Len(parts) |-> parts[i].asSQL]
        bindings == Flatten([i \in 1..Len(parts) |-> parts[i].bindings])
    IN [asSQL |-> <<head>> \o StringsJoin(placeholders, <<",">>) \o <<")">>,
        bindings |-> bindings]

TopValues == {v \in Values(MaxDepth) : v.t # "scalar"}

JInit ==
    /\ jin \in TopValues
    /\ jb = NoBuilder
    /\ jout = NoResult
    /\ jorder = <<>>
    /\ jseen = {}

\* BuildJSONBObject(jin), the map's keys visited in some order
JBuildObject ==
    /\ jin.t = "map"
    /\ \E order \in Perms(KeySet) :
         jb' = BuildJSONBObject(jin.m, order) /\ jorder' = order
    /\ jout' = NoResult
    /\ UNCHANGED <<jin, jseen, svars>>

\* BuildJSONBArray(jin...)
JBuildArray ==
    /\ jin.t = "slice"
    /\ jb' = BuildJSONBArray(jin.a)
    /\ jorder' = <<>>
    /\ jout' = NoResult
    /\ UNCHANGED <<jin, jseen, svars>>

\* jb.Parse(), the nested maps' keys visited in some order
JParse ==
    /\ jb # NoBuilder
    /\ \E order \in Perms(KeySet) :
         /\ jout' = Parse(jb, order)
         /\ jseen' = jseen \cup {[built |-> jorder, parsed |-> order, out |-> jout']}
    /\ UNCHANGED <<jin, jb, jorder, svars>>

-----------------------------------------------------------------------------
(* WhereCondition and parseConditions: part of the package, not in src/ *)

\* Eq(col, val) with a literal operand and Eq(col, Indirect(ref))
Eq(col, val) == [col |-> col, indirect |-> FALSE, val |-> val]
EqIndirect(col, ref) == [col |-> col, indirect |-> TRUE, val |-> ref]

CondA == Eq("a", "va")
CondB == Eq("b", "vb")
CondC == Eq("c", "vc")
CondI == EqIndirect("t.id", "u.id")
\* the column a literal operand was compared with
ColOfVal(v) == CASE v = "va" -> "a" [] v = "vb" -> "b" [] v = "vc" -> "c"
                 [] OTHER -> "none"

CondSQL(c) == IF c.indirect THEN <<c.col, "=", c.val>> ELSE <<c.col, "=", "?">>
CondBindings(c) == IF c.indirect THEN <<>> ELSE <<c.val>>

parseConditions(conds) ==
    [sql |-> StringsJoin([i \in 1..Len(conds) |-> CondSQL(conds[i])], <<"AND">>),
     bindings |-> Flatten([i \in 1..Len(conds) |-> CondBindings(conds[i])])]

-----------------------------------------------------------------------------
(* SELECT statement builder: src/jsonb.go lines 67-537 *)

Nil == 0
\* addresses of the SelectStmt objects of the heap, in Spec and in SpecJoins,
\* and of the LockClause objects
StmtIds == {1, 2}
JoinStmtIds == {1, 2, 3}
LockIds == {1, 2}

InnerJoin == 0
LeftJoin == 1
RightJoin == 2
FullJoin == 3

LockForUpdate == 0
LockForNoKeyUpdate == 1
LockForShare == 2
LockForKeyShare == 3

LockDefault == 0
LockNoWait == 1
LockSkipLocked == 2

\* JoinType.String(): an index into a slice of four names
ValidJoinType(j) == j \in 0..3
JoinTypeString(j) ==
    <<CASE j = InnerJoin -> "INNER" [] j = LeftJoin -> "LEFT"
        [] j = RightJoin -> "RIGHT" [] OTHER -> "FULL", "JOIN">>

Asc(col) == [Column |-> col, Desc |-> FALSE]
Desc(col) == [Column |-> col, Desc |-> TRUE]
OrderColumnToSQL(o) == <<o.Column, IF o.Desc THEN "DESC" ELSE "ASC">>

\* strings.Join(cols, ", ")
JoinComma(cols) == StringsJoin([i \in 1..Len(cols) |-> <<cols[i]>>], <<",">>)

\* db.Select(cols...) / tx.Select(cols...)
Select(cols, queryer) ==
    [IsDistinct |-> FALSE, DistinctColumns |-> <<>>, Columns |-> cols,
     Table |-> "", Joins |-> <<>>, Conditions |-> <<>>, Ordering |-> <<>>,
     Grouping |-> <<>>, GroupConditions |-> <<>>, Locks |-> <<>>,
     LimitTo |-> 0, OffsetFrom |-> 0, OffsetRows |-> 0, queryer |-> queryer]

\* &LockClause{Strength: strength}
NewLock(strength) == [Strength |-> strength, Tables |-> <<>>, Wait |-> LockDefault]

\* what a call returns or how it ends
Ok(sql, bindings) == [kind |-> "ok", asSQL |-> sql, bindings |-> bindings]
Failure(kind) == [kind |-> kind, asSQL |-> <<>>, bindings |-> <<>>]

\* sqlx Rebind: the n-th "?" becomes "$n" for a driver with numbered placeholders
RECURSIVE RebindFrom(_, _)
RebindFrom(sql, n) ==
    IF sql = <<>> THEN <<>>
    ELSE IF Head(sql) = "?" THEN <<"$" \o ToString(n)>> \o RebindFrom(Tail(sql), n + 1)
    ELSE <<Head(sql)>> \o RebindFrom(Tail(sql), n)

Rebind(queryer, sql) == IF queryer = "dollar" THEN RebindFrom(sql, 1) ELSE sql

SelectSQL(stmt) ==
    <<"SELECT">>
    \o (IF stmt.IsDistinct
        THEN <<"DISTINCT">>
             \o (IF Len(stmt.DistinctColumns) > 0
                 THEN <<"ON", "(">> \o JoinComma(stmt.DistinctColumns) \o <<")">>
                 ELSE <<>>)
        ELSE <<>>)
    \o (IF Len(stmt.Columns) = 0 THEN <<"*">> ELSE JoinComma(stmt.Columns))
    \o <<"FROM">> \o Tok(stmt.Table)

\* the text and the bindings one join adds, given its rendered result set
JoinSQL(join, rsSQL, onClause) ==
    IF join.ResultSet # Nil
    THEN JoinTypeString(join.Type) \o <<"(">> \o rsSQL \o <<")">>
         \o Tok(join.Table) \o <<"ON">> \o onClause
    ELSE JoinTypeString(join.Type) \o Tok(join.Table) \o <<"ON">> \o onClause

JoinBindingsConditionsFirst(rsBindings, joinBindings) == joinBindings \o rsBindings
JoinBindings(rsBindings, joinBindings) == rsBindings \o joinBindings

WhereSQL(stmt) ==
    IF Len(stmt.Conditions) > 0
    THEN <<"WHERE">> \o parseConditions(stmt.Conditions).sql ELSE <<>>
WhereBindings(stmt) ==
    IF Len(stmt.Conditions) > 0
    THEN parseConditions(stmt.Conditions).bindings ELSE <<>>

GroupBySQL(stmt) ==
    IF Len(stmt.Grouping) > 0
    THEN <<"GROUP", "BY">> \o JoinComma(stmt.Grouping) ELSE <<>>

HavingSQL(stmt) ==
    IF Len(stmt.GroupConditions) > 0
    THEN <<"HAVING">> \o parseConditions(stmt.GroupConditions).sql ELSE <<>>
HavingBindings(stmt) ==
    IF Len(stmt.GroupConditions) > 0
    THEN parseConditions(stmt.GroupConditions).bindings ELSE <<>>

OrderBySQL(stmt) ==
    IF Len(stmt.Ordering) > 0
    THEN <<"ORDER", "BY">>
         \o StringsJoin([i \in 1..Len(stmt.Ordering) |->
                           OrderColumnToSQL(stmt.Ordering[i])], <<",">>)
    ELSE <<>>

LimitSQL(stmt) ==
    IF stmt.LimitTo > 0 THEN <<"LIMIT", ToString(stmt.LimitTo)>> ELSE <<>>

OffsetSQL(stmt) ==
    IF stmt.OffsetFrom > 0
    THEN <<"OFFSET", ToString(stmt.OffsetFrom)>>
         \o (IF stmt.OffsetRows > 0 THEN <<ToString(stmt.OffsetRows)>> ELSE <<>>)
    ELSE <<>>

\* the switch on lock.Strength: the keyword, or nothing for the default case
LockStrengthSQLDefaultUpdate(strength) ==
    CASE strength = LockForNoKeyUpdate -> <<"FOR", "NO", "KEY", "UPDATE">>
      [] strength = LockForShare -> <<"FOR", "SHARE">>
      [] strength = LockForKeyShare -> <<"FOR", "KEY", "SHARE">>
      [] OTHER -> <<"FOR", "UPDATE">>
LockStrengthSQL(strength) ==
    CASE strength = LockForUpdate -> <<"FOR", "UPDATE">>
      [] strength = LockForNoKeyUpdate -> <<"FOR", "NO", "KEY", "UPDATE">>
      [] strength = LockForShare -> <<"FOR", "SHARE">>
      [] strength = LockForKeyShare -> <<"FOR", "KEY", "SHARE">>
      [] OTHER -> <<>>

\* one iteration of the loop over stmt.Locks, for a lock that is not nil
LockSQL(lock) ==
    IF LockStrengthSQL(lock.Strength) = <<>> THEN <<>>
    ELSE LockStrengthSQL(lock.Strength)
         \o (IF Len(lock.Tables) > 0 THEN <<"OF">> \o JoinComma(lock.Tables) ELSE <<>>)
         \o (CASE lock.Wait = LockNoWait -> <<"NOWAIT">>
               [] lock.Wait = LockSkipLocked -> <<"SKIP", "LOCKED">>
               [] OTHER -> <<>>)

RECURSIVE LocksSQL(_, _)
LocksSQL(lk, ptrs) ==
    IF ptrs = <<>> THEN Ok(<<>>, <<>>)
    ELSE IF Head(ptrs) = Nil THEN Failure("panic: nil pointer dereference")
    ELSE LET rest == LocksSQL(lk, Tail(ptrs)) IN
         IF rest.kind # "ok" THEN rest
         ELSE Ok(LockSQL(lk[Head(ptrs)]) \o rest.asSQL, <<>>)

\* Calls of ToSQL nested deeper than the number of statement objects visit
\* one object twice, and so never return: the goroutine's stack overflows
StackLimit(h) == Cardinality(DOMAIN h)

RECURSIVE ToSQLAt(_, _, _, _, _)
RECURSIVE JoinsSQL(_, _, _, _)
JoinsSQL(h, lk, joins, depth) ==
    IF joins = <<>> THEN Ok(<<>>, <<>>)
    ELSE LET join == Head(joins)
             on == parseConditions(join.Conditions)
             rs == IF join.ResultSet # Nil
                   THEN ToSQLAt(h, lk, join.ResultSet, FALSE, depth + 1)
                   ELSE Ok(<<>>, <<>>)
         IN IF rs.kind # "ok" THEN rs
            ELSE IF ~ValidJoinType(join.Type)
            THEN Failure("panic: index out of range")
            ELSE LET rest == JoinsSQL(h, lk, Tail(joins), depth) IN
                 IF rest.kind # "ok" THEN rest
                 ELSE Ok(JoinSQL(join, rs.asSQL, on.sql) \o rest.asSQL,
                         JoinBindings(rs.bindings, on.bindings) \o rest.bindings)

\* stmt.ToSQL(rebind) for the statement at address s of heap h, as the
\* depth-th nested call
ToSQLAt(h, lk, s, rebind, depth) ==
    IF depth > StackLimit(h) THEN Failure("fatal: stack overflow")
    ELSE LET stmt == h[s]
             joins == JoinsSQL(h, lk, stmt.Joins, depth)
         IN IF joins.kind # "ok" THEN joins
            ELSE LET lockSQL == LocksSQL(lk, stmt.Locks)
                     sql == SelectSQL(stmt) \o joins.asSQL \o WhereSQL(stmt)
                            \o GroupBySQL(stmt) \o HavingSQL(stmt)
                            \o OrderBySQL(stmt) \o LimitSQL(stmt)
                            \o OffsetSQL(stmt) \o lockSQL.asSQL
                     bindings == joins.bindings \o WhereBindings(stmt)
                                 \o HavingBindings(stmt)
                 IN IF lockSQL.kind # "ok" THEN lockSQL
                    ELSE Ok(IF rebind THEN Rebind(stmt.queryer, sql) ELSE sql,
                            bindings)

ToSQL(s, rebind) == ToSQLAt(stmts, locks, s, rebind, 1)

-----------------------------------------------------------------------------
(* Arguments the callers pass *)

ColumnArgs == {<<>>, <<"id", "name">>}
TableArgs == {"users"}
\* <<join type, result set>>: a join on a table, on each statement's result
\* set, and one whose type is none of the four constants
JoinArgs == {<<InnerJoin, Nil>>, <<FullJoin + 1, Nil>>}
            \cup {<<LeftJoin, rs>> : rs \in DOMAIN stmts}
JoinTableArgs == {"t"}
JoinCondArgs == {<<CondI, CondB>>}
WhereArgs == {<<CondA>>, <<CondI, CondC>>}
HavingArgs == {<<CondC>>}
OrderArgs == {<<Desc("id"), Asc("name")>>}
GroupArgs == {<<"id">>}
LimitArgs == {-1, 10}
\* <<start, rows...>>
OffsetArgs == {<<0, <<>>>>, <<5, <<>>>>, <<5, <<2>>>>}
OfTablesArgs == {<<"users">>}
\* the handle a statement was created from: one driver numbers its
\* placeholders, the other keeps "?"
QueryerOf(s) == IF s = 1 THEN "dollar" ELSE "question"
\* ForUpdate(), &LockClause{Strength: 4}
LockStrengthOf(l) == IF l = 1 THEN LockForUpdate ELSE LockForKeyShare + l - 1

NoAdded == [joins |-> <<>>, where |-> <<>>, order |-> <<>>, group |-> <<>>,
            having |-> <<>>, locks |-> <<>>]

SInit(ids, calls) ==
    /\ stmts = [s \in ids |->
                  Select(IF s = 1 THEN <<"id", "name">> ELSE <<>>, QueryerOf(s))]
    /\ locks = [l \in LockIds |-> NewLock(LockStrengthOf(l))]
    /\ ret = [op |-> "Select"]
    /\ added = [s \in ids |-> NoAdded]
    /\ budget = calls

Configure == budget > 0 /\ budget' = budget - 1

Distinct(s, cols) ==
    /\ Configure
    /\ stmts' = [stmts EXCEPT ![s].DistinctColumns = cols, ![s].IsDistinct = TRUE]
    /\ ret' = [op |-> "Distinct", stmt |-> s]
    /\ UNCHANGED <<locks, added, jvars>>

From(s, table) ==
    /\ Configure
    /\ stmts' = [stmts EXCEPT ![s].Table = table]
    /\ ret' = [op |-> "From", stmt |-> s]
    /\ UNCHANGED <<locks, added, jvars>>

JoinAppend(joins, join) == Append(joins, join)

Join(s, joinType, table, resultSet, conds) ==
    LET join == [Type |-> joinType, Table |-> table, ResultSet |-> resultSet,
                 Conditions |-> conds] IN
    /\ Configure
    /\ stmts' = [stmts EXCEPT ![s].Joins = JoinAppend(@, join)]
    /\ added' = [added EXCEPT ![s].joins = Append(@, join)]
    /\ ret' = [op |-> "Join", stmt |-> s]
    /\ UNCHANGED <<locks, jvars>>

WhereReplaces(old, conditions) == conditions
WhereAppend(old, conditions) == old \o conditions

Where(s, conditions) ==
    /\ Configure
    /\ stmts' = [stmts EXCEPT ![s].Conditions = WhereAppend(@, conditions)]
    /\ added' = [added EXCEPT ![s].where = @ \o conditions]
    /\ ret' = [op |-> "Where", stmt |-> s]
    /\ UNCHANGED <<locks, jvars>>

OrderBy(s, cols) ==
    /\ Configure
    /\ stmts' = [stmts EXCEPT ![s].Ordering = @ \o cols]
    /\ added' = [added EXCEPT ![s].order = @ \o cols]
    /\ ret' = [op |-> "OrderBy", stmt |-> s]
    /\ UNCHANGED <<locks, jvars>>

GroupBy(s, cols) ==
    /\ Configure
    /\ stmts' = [stmts EXCEPT ![s].Grouping = @ \o cols]
    /\ added' = [added EXCEPT ![s].group = @ \o cols]
    /\ ret' = [op |-> "GroupBy", stmt |-> s]
    /\ UNCHANGED <<locks, jvars>>

Having(s, conditions) ==
    /\ Configure
    /\ stmts' = [stmts EXCEPT ![s].GroupConditions = @ \o conditions]
    /\ added' = [added EXCEPT ![s].having = @ \o conditions]
    /\ ret' = [op |-> "Having", stmt |-> s]
    /\ UNCHANGED <<locks, jvars>>

Limit(s, limit) ==
    /\ Configure
    /\ stmts' = [stmts EXCEPT ![s].LimitTo = limit]
    /\ ret' = [op |-> "Limit", stmt |-> s]
    /\ UNCHANGED <<locks, added, jvars>>

\* the value of OffsetRows after Offset(start, rows...)
OffsetRowsAfter(old, rows) == IF Len(rows) > 0 THEN rows[1] ELSE old

Offset(s, start, rows) ==
    /\ Configure
    /\ stmts' = [stmts EXCEPT ![s].OffsetFrom = start,
                              ![s].OffsetRows = OffsetRowsAfter(@, rows)]
    /\ ret' = [op |-> "Offset", stmt |-> s, start |-> start, rows |-> rows]
    /\ UNCHANGED <<locks, added, jvars>>

Lock(s, lock) ==
    /\ Configure
    /\ stmts' = [stmts EXCEPT ![s].Locks = Append(@, lock)]
    /\ added' = [added EXCEPT ![s].locks = Append(@, lock)]
    /\ ret' = [op |-> "Lock", stmt |-> s]
    /\ UNCHANGED <<locks, jvars>>

NoWait(l) ==
    /\ Configure
    /\ locks' = [locks EXCEPT ![l].Wait = LockNoWait]
    /\ ret' = [op |-> "NoWait", lock |-> l]
    /\ UNCHANGED <<stmts, added, jvars>>

SkipLocked(l) ==
    /\ Configure
    /\ locks' = [locks EXCEPT ![l].Wait = LockSkipLocked]
    /\ ret' = [op |-> "SkipLocked", lock |-> l]
    /\ UNCHANGED <<stmts, added, jvars>>

OfTables(l, tables) ==
    /\ Configure
    /\ locks' = [locks EXCEPT ![l].Tables = @ \o tables]
    /\ ret' = [op |-> "OfTables", lock |-> l]
    /\ UNCHANGED <<stmts, added, jvars>>

\* stmt.ToSQL(rebind), called directly
CallToSQL(s, rebind) ==
    /\ ret' = [op |-> "ToSQL", stmt |-> s, rebind |-> rebind, res |-> ToSQL(s, rebind)]
    /\ UNCHANGED <<stmts, locks, added, budget, jvars>>

\* stmt.GetRow(into) and stmt.GetAll(into): res is the query handed to sqlx
GetRow(s) ==
    /\ ret' = [op |-> "GetRow", stmt |-> s, rebind |-> TRUE, res |-> ToSQL(s, TRUE)]
    /\ UNCHANGED <<stmts, locks, added, budget, jvars>>

GetAll(s) ==
    /\ ret' = [op |-> "GetAll", stmt |-> s, rebind |-> TRUE, res |-> ToSQL(s, TRUE)]
    /\ UNCHANGED <<stmts, locks, added, budget, jvars>>

\* where GetCount keeps the statement it changes: a local variable of its own
CountLocal == -1
CountStmtAddrAlias(s) == s
CountStmtAddr(s) == CountLocal

\* countStmt after GetCount's assignments to it
CountStmtKeepsLimit(stmt) ==
    [stmt EXCEPT !.Columns = <<"COUNT(*)">>, !.OffsetFrom = 0,
                 !.OffsetRows = 0, !.Ordering = <<>>]
CountStmt(stmt) ==
    [stmt EXCEPT !.Columns = <<"COUNT(*)">>, !.LimitTo = 0, !.OffsetFrom = 0,
                 !.OffsetRows = 0, !.Ordering = <<>>]

GetCount(s) ==
    LET c == CountStmtAddr(s)
        h == [x \in DOMAIN stmts \cup {c} |-> IF x = c THEN CountStmt(stmts[s]) ELSE stmts[x]]
    IN /\ ret' = [op |-> "GetCount", stmt |-> s, rebind |-> TRUE,
                  res |-> ToSQLAt(h, locks, c, TRUE, 1)]
       /\ stmts' = [x \in DOMAIN stmts |-> h[x]]
       /\ UNCHANGED <<locks, added, budget, jvars>>

Next ==
    \/ \E s \in DOMAIN stmts, cols \in ColumnArgs : Distinct(s, cols)
    \/ \E s \in DOMAIN stmts, table \in TableArgs : From(s, table)
    \/ \E s \in DOMAIN stmts, j \in JoinArgs, table \in JoinTableArgs,
          conds \in JoinCondArgs : Join(s, j[1], table, j[2], conds)
    \/ \E s \in DOMAIN stmts, conditions \in WhereArgs : Where(s, conditions)
    \/ \E s \in DOMAIN stmts, cols \in OrderArgs : OrderBy(s, cols)
    \/ \E s \in DOMAIN stmts, cols \in GroupArgs : GroupBy(s, cols)
    \/ \E s \in DOMAIN stmts, conditions \in HavingArgs : Having(s, conditions)
    \/ \E s \in DOMAIN stmts, limit \in LimitArgs : Limit(s, limit)
    \/ \E s \in DOMAIN stmts, o \in OffsetArgs : Offset(s, o[1], o[2])
    \/ \E s \in DOMAIN stmts, lock \in {Nil} \cup LockIds : Lock(s, lock)
    \/ \E l \in LockIds : NoWait(l)
    \/ \E l \in LockIds : SkipLocked(l)
    \/ \E l \in LockIds, tables \in OfTablesArgs : OfTables(l, tables)
    \/ \E s \in DOMAIN stmts, rebind \in BOOLEAN : CallToSQL(s, rebind)
    \/ \E s \in DOMAIN stmts : GetRow(s)
    \/ \E s \in DOMAIN stmts : GetAll(s)
    \/ \E s \in DOMAIN stmts : GetCount(s)

-----------------------------------------------------------------------------
(* Specifications *)

\* the statement builder; no jsonb builder in use
Init ==
    /\ SInit(StmtIds, MaxCalls)
    /\ jin = [t |-> "slice", a |-> <<>>] /\ jb = NoBuilder /\ jout = NoResult
    /\ jorder = <<>> /\ jseen = {}
Spec == Init /\ [][Next]_vars

\* statements that join each other's result sets: three statements, and the
\* calls that add what carries bindings
InitJoins ==
    /\ SInit(JoinStmtIds, MaxJoinCalls)
    /\ jin = [t |-> "slice", a |-> <<>>] /\ jb = NoBuilder /\ jout = NoResult
    /\ jorder = <<>> /\ jseen = {}
NextJoins ==
    \/ \E s \in DOMAIN stmts, j \in JoinArgs, table \in JoinTableArgs,
          conds \in JoinCondArgs : Join(s, j[1], table, j[2], conds)
    \/ \E s \in DOMAIN stmts, conditions \in WhereArgs : Where(s, conditions)
    \/ \E s \in DOMAIN stmts, conditions \in HavingArgs : Having(s, conditions)
    \/ \E s \in DOMAIN stmts : CallToSQL(s, FALSE)
SpecJoins == InitJoins /\ [][NextJoins]_vars

\* the jsonb builder; the statements stay as constructed
InitJSONB == JInit /\ SInit(StmtIds, MaxCalls)
NextJSONB == JBuildObject \/ JBuildArray \/ JParse
SpecJSONB == InitJSONB /\ [][NextJSONB]_vars

-----------------------------------------------------------------------------
(* Reading a rendered jsonb expression *)

\* The placeholders of a jsonb expression, left to right: for each, whether it
\* stands where a key stands (an odd argument of a jsonb_build_object) and
\* the number of the sub-expression it is an argument of. stack holds the
\* open sub-expressions, innermost first; opened counts those opened so far.
RECURSIVE Placeholders(_, _, _)
Placeholders(toks, stack, opened) ==
    IF toks = <<>> THEN <<>>
    ELSE LET tk == Head(toks)
             used == IF stack = <<>> THEN <<>>
                     ELSE <<[Head(stack) EXCEPT !.n = @ + 1]>> \o Tail(stack)
         IN CASE tk = "jsonb_build_object(" ->
                   Placeholders(Tail(toks),
                       <<[obj |-> TRUE, n |-> 0, id |-> opened + 1]>> \o used,
                       opened + 1)
              [] tk = "jsonb_build_array(" ->
                   Placeholders(Tail(toks),
                       <<[obj |-> FALSE, n |-> 0, id |-> opened + 1]>> \o used,
                       opened + 1)
              [] tk = ")" -> Placeholders(Tail(toks), Tail(stack), opened)
              [] tk = "?" ->
                   <<[key |-> Head(stack).obj /\ Head(stack).n % 2 = 0,
                      of |-> Head(stack).id]>>
                   \o Placeholders(Tail(toks), used, opened)
              [] OTHER -> Placeholders(Tail(toks), stack, opened)

\* The scalars of a Go value, depth first, a map giving each key, then what
\* the key maps to, the keys taken in their string order
RECURSIVE Leaves(_)
Leaves(v) ==
    CASE v.t = "map" ->
           Flatten([i \in 1..Len(Keys) |->
                      IF Keys[i] \in DOMAIN v.m
                      THEN <<Scalar(Keys[i])>> \o Leaves(v.m[Keys[i]])
                      ELSE <<>>])
      [] v.t = "slice" -> Flatten([i \in 1..Len(v.a) |-> Leaves(v.a[i])])
      [] OTHER -> <<v>>

-----------------------------------------------------------------------------
(* Claims about the jsonb builder, under SpecJSONB *)

\* C2: what Parse returns has as many "?" as bindings, the bindings are the
\* scalars of the value depth first (each map: key, then value, in key order),
\* and the N-th "?" stands at a key's place exactly when the N-th binding is
\* a key.
C2_PlaceholdersMatchBindings ==
    jout # NoResult =>
        LET ph == Placeholders(jout.asSQL, <<>>, 0) IN
        /\ Count(jout.asSQL, "?") = Len(jout.bindings)
        /\ Len(ph) = Len(jout.bindings)
        /\ jout.bindings = Leaves(jin)
        /\ \A n \in 1..Len(ph) : ph[n].key <=> jout.bindings[n].v \in KeySet

\* a map in a map, both with two keys, and a slice beside it, were parsed
C2_Witness ==
    /\ jout # NoResult
    /\ jin.t = "map"
    /\ DOMAIN jin.m = KeySet
    /\ jin.m["a"].t = "map" /\ DOMAIN jin.m["a"].m = KeySet
    /\ jin.m["b"].t = "slice" /\ Len(jin.m["b"].a) > 0

\* C3: every Parse of the same map returns the same text and bindings,
\* whatever order the keys were visited in, and in what it returns the keys of
\* each jsonb_build_object stand in ascending string order.
C3_SortedKeyDeterminism ==
    /\ \A e1, e2 \in jseen : e1.out = e2.out
    /\ jout # NoResult =>
         LET ph == Placeholders(jout.asSQL, <<>>, 0) IN
         \A i, j \in 1..Len(ph) :
            (i < j /\ ph[i].key /\ ph[j].key /\ ph[i].of = ph[j].of)
                => StrLess(jout.bindings[i].v, jout.bindings[j].v)

\* a map with two keys holding a map with two keys was built and parsed
\* twice, its keys visited in two different orders
C3_Witness ==
    /\ jin.t = "map" /\ DOMAIN jin.m = KeySet
    /\ jin.m["b"].t = "map" /\ DOMAIN jin.m["b"].m = KeySet
    /\ \E e1, e2 \in jseen : e1.built # e2.built /\ e1.parsed # e2.parsed

-----------------------------------------------------------------------------
(* Reading a rendered SELECT statement *)

JoinKeywords == {"INNER", "LEFT", "RIGHT", "FULL"}
ClauseKeywords ==
    {"SELECT", "FROM", "WHERE", "GROUP", "HAVING", "ORDER", "LIMIT", "OFFSET", "FOR"}
    \cup JoinKeywords

\* the place of a clause in the grammar
ClauseRank(kw) ==
    CASE kw = "SELECT" -> 1 [] kw = "FROM" -> 2 [] kw \in JoinKeywords -> 3
      [] kw = "WHERE" -> 4 [] kw = "GROUP" -> 5 [] kw = "HAVING" -> 6
      [] kw = "ORDER" -> 7 [] kw = "LIMIT" -> 8 [] kw = "OFFSET" -> 9
      [] OTHER -> 10

\* the positions, from i on, at which a clause of the statement itself starts:
\* a clause keyword outside every pair of parentheses
RECURSIVE ClauseStartsFrom(_, _, _)
ClauseStartsFrom(text, i, depth) ==
    IF i > Len(text) THEN <<>>
    ELSE CASE text[i] = "(" -> ClauseStartsFrom(text, i + 1, depth + 1)
           [] text[i] = ")" -> ClauseStartsFrom(text, i + 1, depth - 1)
           [] depth = 0 /\ text[i] \in ClauseKeywords ->
                <<i>> \o ClauseStartsFrom(text, i + 1, depth)
           [] OTHER -> ClauseStartsFrom(text, i + 1, depth)

ClauseStarts(text) == ClauseStartsFrom(text, 1, 0)

\* the clauses of the statement itself that start with a keyword of kws, with
\* all they hold (sub-selects too): from the first such clause to the next
\* clause of another kind
Clause(text, kws) ==
    LET starts == ClauseStarts(text)
        mine == {k \in 1..Len(starts) : text[starts[k]] \in kws}
    IN IF mine = {} THEN <<>>
       ELSE LET first == CHOOSE k \in mine : \A m \in mine : k <= m
                later == {k \in 1..Len(starts) : k > first /\ text[starts[k]] \notin kws}
                last == IF later = {} THEN Len(text)
                        ELSE starts[CHOOSE k \in later : \A m \in later : k <= m] - 1
            IN SubSeq(text, starts[first], last)

\* the positions of the "?" of a text, left to right
RECURSIVE PositionsFrom(_, _)
PositionsFrom(text, i) ==
    IF i > Len(text) THEN <<>>
    ELSE IF text[i] = "?" THEN <<i>> \o PositionsFrom(text, i + 1)
    ELSE PositionsFrom(text, i + 1)

Rendered(op) == ret.op = op /\ ret.res.kind = "ok"
RenderOps == {"ToSQL", "GetRow", "GetAll", "GetCount"}
LockMethods == {"NoWait", "SkipLocked", "OfTables"}

-----------------------------------------------------------------------------
(* Claims about the statement builder, under Spec *)

\* C1: the text and bindings ToSQL(false) returns agree by position: as many
\* "?" as bindings, and the i-th "?" is the operand of the column the i-th
\* binding was given for, so a sub-statement's bindings precede its join's,
\* the joins' precede WHERE's, and WHERE's precede HAVING's.
C1_BindingsPositional ==
    (Rendered("ToSQL") /\ ~ret.rebind) =>
        LET text == ret.res.asSQL
            pos == PositionsFrom(text, 1)
        IN /\ Len(pos) = Len(ret.res.bindings)
           /\ \A i \in 1..Len(pos) :
                /\ pos[i] > 2
                /\ text[pos[i] - 1] = "="
                /\ text[pos[i] - 2] = ColOfVal(ret.res.bindings[i])

\* a statement was rendered whose join is on a sub-statement that has a WHERE
\* binding of its own and itself joins a sub-statement, the joins having
\* bindings too
C1_Witness ==
    /\ Rendered("ToSQL") /\ ~ret.rebind
    /\ \E k \in 1..Len(stmts[ret.stmt].Joins) :
         LET join == stmts[ret.stmt].Joins[k] IN
         /\ join.ResultSet # Nil
         /\ Len(stmts[join.ResultSet].Conditions) > 0
         /\ parseConditions(join.Conditions).bindings # <<>>
         /\ \E m \in 1..Len(stmts[join.ResultSet].Joins) :
              stmts[join.ResultSet].Joins[m].ResultSet # Nil
    /\ Len(ret.res.bindings) >= 3

\* C4: the query GetCount renders selects COUNT(*), has no LIMIT, OFFSET or
\* ORDER BY clause of its own, and its JOIN, WHERE, GROUP BY and HAVING
\* clauses and its bindings are those of the statement's own rendering.
C4_CountQuery ==
    Rendered("GetCount") =>
        LET count == ret.res.asSQL
            select == Clause(count, {"SELECT"})
            orig == ToSQL(ret.stmt, TRUE)
        IN /\ select[Len(select)] = "COUNT(*)"
           /\ select[Len(select) - 1] \in {"SELECT", "DISTINCT", ")"}
           /\ \A kw \in {"LIMIT", "OFFSET", "ORDER"} : Clause(count, {kw}) = <<>>
           /\ orig.kind = "ok"
           /\ \A kws \in {JoinKeywords, {"WHERE"}, {"GROUP"}, {"HAVING"}} :
                Clause(count, kws) = Clause(orig.asSQL, kws)
           /\ ret.res.bindings = orig.bindings

\* GetCount ran on a statement with a limit, an offset or an ordering, and
\* with a WHERE or JOIN clause to keep
C4_Witness ==
    /\ Rendered("GetCount")
    /\ \/ stmts[ret.stmt].LimitTo > 0
       \/ stmts[ret.stmt].OffsetFrom > 0
       \/ Len(stmts[ret.stmt].Ordering) > 0
    /\ \/ Len(stmts[ret.stmt].Conditions) > 0
       \/ Len(stmts[ret.stmt].Joins) > 0

C6_OffsetAsLastCalled ==
    (ret.op = "Offset" /\ ToSQL(ret.stmt, FALSE).kind = "ok") =>
        Clause(ToSQL(ret.stmt, FALSE).asSQL, {"OFFSET"}) =
            IF ret.start = 0 THEN <<>>
            ELSE IF Len(ret.rows) > 0
                 THEN <<"OFFSET", ToString(ret.start), ToString(ret.rows[1])>>
                 ELSE <<"OFFSET", ToString(ret.start)>>

\* the text a lock with one of the four strengths adds
LockText(lock) ==
    (CASE lock.Strength = LockForUpdate -> <<"FOR", "UPDATE">>
       [] lock.Strength = LockForNoKeyUpdate -> <<"FOR", "NO", "KEY", "UPDATE">>
       [] lock.Strength = LockForShare -> <<"FOR", "SHARE">>
       [] lock.Strength = LockForKeyShare -> <<"FOR", "KEY", "SHARE">>)
    \o (IF lock.Tables = <<>> THEN <<>>
        ELSE <<"OF">> \o StringsJoin([i \in 1..Len(lock.Tables) |->
                                        <<lock.Tables[i]>>], <<",">>))
    \o (IF lock.Wait = LockNoWait THEN <<"NOWAIT">>
        ELSE IF lock.Wait = LockSkipLocked THEN <<"SKIP", "LOCKED">> ELSE <<>>)

\* the locks of a statement that are rendered, given the strengths that are
LocksText(s, strengths) ==
    Flatten([k \in 1..Len(stmts[s].Locks) |->
               IF locks[stmts[s].Locks[k]].Strength \in strengths
               THEN LockText(locks[stmts[s].Locks[k]]) ELSE <<>>])

NoNilLock(s) == \A k \in 1..Len(stmts[s].Locks) : stmts[s].Locks[k] # Nil

C8_AttachedLockIsValue ==
    [][ret'.op \in LockMethods =>
        \A s \in DOMAIN stmts :
            (\E k \in 1..Len(stmts[s].Locks) : stmts[s].Locks[k] = ret'.lock)
                => ToSQLAt(stmts', locks', s, FALSE, 1)
                     = ToSQLAt(stmts, locks, s, FALSE, 1)]_vars

\* the ranks of the clauses of a text, in the order they stand in
ClauseRanks(text) ==
    [k \in 1..Len(ClauseStarts(text)) |-> ClauseRank(text[ClauseStarts(text)[k]])]

\* the text of the joins of a statement, from the joins ever added to it
RECURSIVE AddedJoinsText(_)
AddedJoinsText(joins) ==
    IF joins = <<>> THEN <<>>
    ELSE JoinSQL(Head(joins),
                 IF Head(joins).ResultSet # Nil
                 THEN ToSQL(Head(joins).ResultSet, FALSE).asSQL ELSE <<>>,
                 parseConditions(Head(joins).Conditions).sql)
         \o AddedJoinsText(Tail(joins))

\* C9: whatever the order of the configuration calls, the clauses ToSQL emits
\* stand in the order of the grammar (SELECT, FROM, joins, WHERE, GROUP BY,
\* HAVING, ORDER BY, LIMIT, OFFSET, locks), each kind but joins and locks once,
\* and the joins, WHERE, GROUP BY, HAVING, ORDER BY and lock clauses hold all
\* the items ever added, in the order of the calls that added them.
C9_GrammarOrderAndAdditive ==
    (Rendered("ToSQL") /\ ~ret.rebind) =>
        LET text == ret.res.asSQL
            ranks == ClauseRanks(text)
            a == added[ret.stmt]
        IN /\ \A k \in 1..(Len(ranks) - 1) :
                \/ ranks[k] < ranks[k + 1]
                \/ ranks[k] = ranks[k + 1] /\ ranks[k] \in {3, 10}
           /\ Len(ranks) >= 2 /\ ranks[1] = 1 /\ ranks[2] = 2
           /\ Clause(text, JoinKeywords) = AddedJoinsText(a.joins)
           /\ Clause(text, {"WHERE"}) =
                (IF a.where = <<>> THEN <<>>
                 ELSE <<"WHERE">> \o parseConditions(a.where).sql)
           /\ Clause(text, {"GROUP"}) =
                (IF a.group = <<>> THEN <<>>
                 ELSE <<"GROUP", "BY">> \o StringsJoin([i \in 1..Len(a.group) |->
                                                         <<a.group[i]>>], <<",">>))
           /\ Clause(text, {"HAVING"}) =
                (IF a.having = <<>> THEN <<>>
                 ELSE <<"HAVING">> \o parseConditions(a.having).sql)
           /\ Clause(text, {"ORDER"}) =
                (IF a.order = <<>> THEN <<>>
                 ELSE <<"ORDER", "BY">>
                      \o StringsJoin([i \in 1..Len(a.order) |->
                                        <<a.order[i].Column,
                                          IF a.order[i].Desc THEN "DESC" ELSE "ASC">>],
                                     <<",">>))
           /\ Clause(text, {"FOR"}) =
                Flatten([k \in 1..Len(a.locks) |->
                           IF locks[a.locks[k]].Strength \in 0..3
                           THEN LockText(locks[a.locks[k]]) ELSE <<>>])

\* a statement was rendered to which Where was called twice, the second time
\* after an OrderBy or with the conditions of the other call first
C9_Witness ==
    /\ Rendered("ToSQL") /\ ~ret.rebind
    /\ added[ret.stmt].where = <<CondI, CondC, CondA>>

\* C10: ToSQL(false) returns a SQL string and bindings for every statement
\* the configuration methods can build.
C10_ToSQLAlwaysReturns ==
    (ret.op = "ToSQL" /\ ~ret.rebind) => ret.res.kind = "ok"

====
